---- MODULE Spec2Model ----
(***************************************************************************)
(* Model of scripts/assess_controls.py: the evidence-to-control matching   *)
(* pipeline (load framework, catalog the evidence directory, extract text, *)
(* match every control, build the result, write the output).               *)
(*                                                                         *)
(* Strings are sequences of one-character strings.  A text is a record     *)
(* [lead, body, trail]: `lead` newline characters, then the characters of  *)
(* `body`, then `trail` newline characters.  This keeps documents of many  *)
(* thousands of characters representable while slicing, lower-casing,      *)
(* length and substring search stay exact on them.                         *)
(***************************************************************************)
EXTENDS Integers, Sequences, FiniteSets, TLC

\* ---------------------------------------------------------------- bounds
MaxControls == 2
MaxFiles == 2

\* ------------------------------------------------------ program constants
MaxChars == 5000
MatchThreshold == 2
CompliantFiles == 2

\* ------------------------------------------------------------ characters
NL == "\n"
Whitespace == {" ", NL, "\t"}

Min(a, b) == IF a < b THEN a ELSE b

\* str.lower() on one character
LowerChar(c) ==
  CASE c = "A" -> "a" [] c = "C" -> "c" [] c = "D" -> "d" [] c = "F" -> "f"
    [] c = "L" -> "l" [] c = "O" -> "o" [] c = "P" -> "p" [] c = "S" -> "s"
    [] c = "T" -> "t" [] c = "X" -> "x"
    [] OTHER -> c

\* str.lower() on a character sequence
LowerSeq(s) == [i \in 1..Len(s) |-> LowerChar(s[i])]

\* str.split(): maximal runs of non-whitespace characters, in order
RECURSIVE SplitFrom(_, _, _)
SplitFrom(s, i, cur) ==
  IF i > Len(s)
    THEN IF cur = <<>> THEN <<>> ELSE <<cur>>
    ELSE IF s[i] \in Whitespace
           THEN IF cur = <<>> THEN SplitFrom(s, i + 1, <<>>)
                ELSE <<cur>> \o SplitFrom(s, i + 1, <<>>)
           ELSE SplitFrom(s, i + 1, Append(cur, s[i]))

Split(s) == SplitFrom(s, 1, <<>>)

\* `kw in s` on character sequences
Contains(kw, s) ==
  \E i \in 0..(Len(s) - Len(kw)) : SubSeq(s, i + 1, i + Len(kw)) = kw

\* ----------------------------------------------------------------- texts
Text(l, b, t) == [lead |-> l, body |-> b, trail |-> t]

Plain(b) == Text(0, b, 0)

TextLen(t) == t.lead + Len(t.body) + t.trail

\* text.lower()
LowerText(t) == Text(t.lead, LowerSeq(t.body), t.trail)

Newlines(n) == [i \in 1..n |-> NL]

\* `kw in text`: a run of newlines longer than the keyword is shortened to
\* the keyword's length, which keeps every occurrence of the keyword
Window(t, k) == Newlines(Min(t.lead, k)) \o t.body \o Newlines(Min(t.trail, k))

TextContains(kw, t) == Contains(kw, Window(t, Len(kw)))

\* text[:n]
SliceNoLimit(t, n) == t

Slice(t, n) ==
  LET l == Min(t.lead, n)
      b == SubSeq(t.body, 1, Min(Len(t.body), n - l))
      r == Min(t.trail, n - l - Len(b))
  IN Text(l, b, r)

\* Path.suffix: from the last dot of the name, if that dot is neither the
\* first nor the last character
LastDot(name) ==
  LET dots == {i \in 1..Len(name) : name[i] = "."}
  IN IF dots = {} THEN 0 ELSE CHOOSE i \in dots : \A j \in dots : j <= i

Suffix(name) ==
  LET d == LastDot(name)
  IN IF d > 1 /\ d < Len(name) THEN SubSeq(name, d, Len(name)) ELSE <<>>

\* ------------------------------------------------- extract_text_from_file
PlainSuffixes == {<<".", "t", "x", "t">>, <<".", "m", "d">>,
                  <<".", "c", "s", "v">>, <<".", "j", "s", "o", "n">>}
PdfSuffix == <<".", "p", "d", "f">>
DocxSuffix == <<".", "d", "o", "c", "x">>
SheetSuffixes == {<<".", "x", "l", "s", "x">>, <<".", "x", "l", "s">>}

\* f"[PDF: {file_path.name}]" and its DOCX and XLSX siblings
PdfPlaceholder(name) == Plain(<<"[", "P", "D", "F", ":", " ">> \o name \o <<"]">>)
DocxPlaceholder(name) == Plain(<<"[", "D", "O", "C", "X", ":", " ">> \o name \o <<"]">>)
XlsxPlaceholder(name) == Plain(<<"[", "X", "L", "S", "X", ":", " ">> \o name \o <<"]">>)

\* Optional[str]: <<>> is None, <<t>> is the text t.  f.content is the text
\* the reader of the file's type yields before the [:5000] slice, f.raises
\* says that reading or parsing the file raises.
None == <<>>

extract_text_placeholder_on_read_error(f) ==
  LET suffix == LowerSeq(Suffix(f.name))
  IN IF suffix \in PlainSuffixes
       THEN IF f.raises THEN <<PdfPlaceholder(f.name)>>
            ELSE <<Slice(f.content, MaxChars)>>
     ELSE IF suffix = PdfSuffix
       THEN IF f.raises THEN <<PdfPlaceholder(f.name)>>
            ELSE <<Slice(f.content, MaxChars)>>
     ELSE IF suffix = DocxSuffix
       THEN IF f.raises THEN <<DocxPlaceholder(f.name)>>
            ELSE <<Slice(f.content, MaxChars)>>
     ELSE IF suffix \in SheetSuffixes
       THEN IF f.raises THEN <<XlsxPlaceholder(f.name)>>
            ELSE <<Slice(f.content, MaxChars)>>
     ELSE None

extract_text_from_file(f) ==
  LET suffix == LowerSeq(Suffix(f.name))
  IN IF suffix \in PlainSuffixes
       THEN IF f.raises THEN None
            ELSE <<Slice(f.content, MaxChars)>>
     ELSE IF suffix = PdfSuffix
       THEN IF f.raises THEN <<PdfPlaceholder(f.name)>>
            ELSE <<Slice(f.content, MaxChars)>>
     ELSE IF suffix = DocxSuffix
       THEN IF f.raises THEN <<DocxPlaceholder(f.name)>>
            ELSE <<Slice(f.content, MaxChars)>>
     ELSE IF suffix \in SheetSuffixes
       THEN IF f.raises THEN <<XlsxPlaceholder(f.name)>>
            ELSE <<Slice(f.content, MaxChars)>>
     ELSE None

\* file_path.suffix.lower().lstrip(".")
RECURSIVE LStripDots(_)
LStripDots(s) ==
  IF s # <<>> /\ Head(s) = "." THEN LStripDots(Tail(s)) ELSE s

FileType(name) == LStripDots(LowerSeq(Suffix(name)))

\* ---------------------------------------------- match_evidence_to_control
\* control.get("common_evidence", [])
CommonEvidence(control) ==
  IF control.has_common_evidence THEN control.common_evidence ELSE <<>>

RECURSIVE ExtendAll(_)
ExtendAll(labels) ==
  IF labels = <<>> THEN <<>>
  ELSE Split(LowerSeq(Head(labels))) \o ExtendAll(Tail(labels))

RECURSIVE Dedup(_)
Dedup(s) ==
  IF s = <<>> THEN <<>>
  ELSE LET rest == Dedup(SubSeq(s, 1, Len(s) - 1))
           last == s[Len(s)]
       IN IF \E i \in 1..Len(rest) : rest[i] = last THEN rest
          ELSE Append(rest, last)

\* control_keywords after the loop of lines 94-95
ControlKeywordsWithName(control) ==
  ExtendAll(CommonEvidence(control)) \o Split(LowerSeq(control.name))

ControlKeywordsAsSet(control) == Dedup(ExtendAll(CommonEvidence(control)))

ControlKeywords(control) == ExtendAll(CommonEvidence(control))

\* sum(1 for kw in control_keywords if kw in text_lower)
RECURSIVE CountHits(_, _)
CountHits(keywords, text_lower) ==
  IF keywords = <<>> THEN 0
  ELSE (IF TextContains(Head(keywords), text_lower) THEN 1 ELSE 0)
       + CountHits(Tail(keywords), text_lower)

Matches(control, text) == CountHits(ControlKeywords(control), LowerText(text))

\* matches > 2
IsMatchAtLeastThreshold(matches) == matches >= MatchThreshold

IsMatch(matches) == matches > MatchThreshold

\* the loop of lines 98-104 over evidence_texts.items(), in insertion order
RECURSIVE MatchedEvidence(_, _)
MatchedEvidence(control, evidence_texts) ==
  IF evidence_texts = <<>> THEN <<>>
  ELSE LET e == Head(evidence_texts)
           rest == MatchedEvidence(control, Tail(evidence_texts))
       IN IF IsMatch(Matches(control, e.text)) THEN <<e.name>> \o rest
          ELSE rest

\* lines 106-112
StatusOffByOne(n) ==
  IF n >= CompliantFiles - 1 THEN "potential_compliant"
  ELSE IF n = 1 THEN "potential_partial"
  ELSE "potential_gap"

Status(n) ==
  IF n >= CompliantFiles THEN "potential_compliant"
  ELSE IF n = 1 THEN "potential_partial"
  ELSE "potential_gap"

match_evidence_to_control(control, evidence_texts) ==
  LET matched_evidence == MatchedEvidence(control, evidence_texts)
  IN [control_id |-> control.id,
      control_name |-> control.name,
      common_evidence_types |-> CommonEvidence(control),
      evidence_found |-> matched_evidence,
      preliminary_status |-> Status(Len(matched_evidence)),
      requires_ai_analysis |-> TRUE]

\* the values the local variable `matches` takes, one per evidence text
MatchCounts(control, evidence_texts) ==
  [i \in 1..Len(evidence_texts) |-> Matches(control, evidence_texts[i].text)]

\* ---------------------------------------------------------------- inputs
SP == <<" ">>
w_ac == <<"a", "c">>
w_co == <<"c", "o">>
w_po == <<"p", "o">>
w_lo == <<"l", "o">>

\* "Ac Co Po", a three-word label in mixed case
LabelPolicy == <<"A", "c">> \o SP \o <<"C", "o">> \o SP \o <<"P", "o">>

ControlName == LabelPolicy

Controls ==
  { [id |-> "K1", name |-> ControlName, has_common_evidence |-> TRUE,
     common_evidence |-> <<LabelPolicy>>],
    [id |-> "K2", name |-> ControlName, has_common_evidence |-> TRUE,
     common_evidence |-> <<w_ac \o SP \o w_lo, w_ac \o SP \o w_po, w_ac>>],
    [id |-> "K3", name |-> ControlName, has_common_evidence |-> FALSE,
     common_evidence |-> <<>>],
    [id |-> "K4", name |-> ControlName, has_common_evidence |-> TRUE,
     common_evidence |-> <<>>] }

\* the control lists of a framework: no control is listed twice
ControlSeqs ==
  {cs \in UNION {[1..n -> Controls] : n \in 0..MaxControls} :
     \A i, j \in 1..Len(cs) : i # j => cs[i] # cs[j]}

\* A framework document: well_formed is "json.load succeeds",
\* has_framework and has_controls are the presence of the top-level keys.
FrameworkDocs ==
  { [well_formed |-> TRUE, has_framework |-> TRUE, has_controls |-> TRUE,
     controls |-> cs] : cs \in ControlSeqs }
  \cup
  { [well_formed |-> TRUE, has_framework |-> FALSE, has_controls |-> TRUE,
     controls |-> cs] : cs \in {c \in ControlSeqs : Len(c) <= 1} }
  \cup
  { [well_formed |-> TRUE, has_framework |-> hf, has_controls |-> FALSE,
     controls |-> <<>>] : hf \in BOOLEAN }
  \cup
  { [well_formed |-> FALSE, has_framework |-> FALSE, has_controls |-> FALSE,
     controls |-> <<>>] }

Entry(n, isf, r, c) == [name |-> n, is_file |-> isf, raises |-> r, content |-> c]

t_policy == w_ac \o SP \o w_co \o SP \o w_po

DirEntries ==
  { \* a.txt: "ac co po"
    Entry(<<"a", ".", "t", "x", "t">>, TRUE, FALSE, Plain(t_policy)),
    \* "ac co po.PDF", a PDF that PyPDF2 cannot read
    Entry(t_policy \o <<".", "P", "D", "F">>, TRUE, TRUE, Plain(<<>>)),
    \* d.docx: "AC CO" and 6000 newlines
    Entry(<<"d", ".", "d", "o", "c", "x">>, TRUE, FALSE,
          Text(0, <<"A", "C">> \o SP \o <<"C", "O">>, 6000)),
    \* i.png: an image
    Entry(<<"i", ".", "p", "n", "g">>, TRUE, FALSE, Plain(t_policy)),
    \* u.txt: a text file whose read raises
    Entry(<<"u", ".", "t", "x", "t">>, TRUE, TRUE, Plain(t_policy)),
    \* sub.txt: a subdirectory
    Entry(<<"s", "u", "b", ".", "t", "x", "t">>, FALSE, FALSE, Plain(<<>>)) }

Directories == {d \in SUBSET DirEntries : Cardinality(d) <= MaxFiles}

\* ----------------------------------------------------------------- state
VARIABLES
  framework_doc,   \* the document at --framework
  dir_exists,      \* whether --evidence-dir exists
  dir_entries,     \* the entries of --evidence-dir
  run,             \* 1 for the first run of main, 2 for the second
  pc,              \* position in main
  error,           \* the exception that ended the run, or "none"
  controls,        \* main's `controls`
  pending,         \* entries iterdir() has not yielded yet
  evidence_files,  \* main's `evidence_files`
  next_file,       \* index of the extraction loop
  evidence_texts,  \* main's `evidence_texts`, in insertion order
  findings,        \* main's `findings`
  matches,         \* per finding, the values of the local `matches`
  result,          \* main's `result`: <<>> or <<the result>>
  output,          \* the file at --output: <<>> or <<the dumped result>>
  prev_output      \* findings and summary of the first run's output, once a
                   \* second run starts

vars == <<framework_doc, dir_exists, dir_entries, run, pc, error, controls,
          pending, evidence_files, next_file, evidence_texts, findings,
          matches, result, output, prev_output>>

inputs == <<framework_doc, dir_exists, dir_entries>>

Init ==
  /\ framework_doc \in FrameworkDocs
  /\ dir_exists \in BOOLEAN
  /\ dir_entries \in Directories
  /\ (~dir_exists => dir_entries = {})
  /\ run = 1
  /\ pc = "load_framework"
  /\ error = "none"
  /\ controls = <<>>
  /\ pending = {}
  /\ evidence_files = <<>>
  /\ next_file = 1
  /\ evidence_texts = <<>>
  /\ findings = <<>>
  /\ matches = <<>>
  /\ result = <<>>
  /\ output = <<>>
  /\ prev_output = <<>>

Abort(e) == pc' = "aborted" /\ error' = e

\* lines 142-143: load_framework, then framework.get("controls", [])
LoadFramework ==
  /\ pc = "load_framework"
  /\ IF ~framework_doc.well_formed
       THEN /\ Abort("JSONDecodeError")
            /\ UNCHANGED <<controls, pending>>
       ELSE /\ controls' = (IF framework_doc.has_controls
                              THEN framework_doc.controls ELSE <<>>)
            /\ pc' = "load_evidence"
            /\ pending' = dir_entries
            /\ UNCHANGED error
  /\ UNCHANGED <<inputs, run, evidence_files, next_file, evidence_texts,
                 findings, matches, result, output, prev_output>>

\* line 24 on a directory that does not exist
LoadEvidenceMissingDir ==
  /\ pc = "load_evidence"
  /\ ~dir_exists
  /\ Abort("FileNotFoundError")
  /\ UNCHANGED <<inputs, run, controls, pending, evidence_files, next_file,
                 evidence_texts, findings, matches, result, output,
                 prev_output>>

\* lines 24-31: one iteration of the loop over evidence_dir.iterdir(); the
\* filesystem yields the entries in any order
CatalogEntry ==
  /\ pc = "load_evidence"
  /\ dir_exists
  /\ \E e \in pending :
       /\ pending' = pending \ {e}
       /\ evidence_files' =
            (IF e.is_file
               THEN Append(evidence_files,
                           [name |-> e.name, type |-> FileType(e.name)])
               ELSE evidence_files)
  /\ UNCHANGED <<inputs, run, pc, error, controls, next_file, evidence_texts,
                 findings, matches, result, output, prev_output>>

\* line 32: load_evidence_files returns
CatalogDone ==
  /\ pc = "load_evidence"
  /\ dir_exists
  /\ pending = {}
  /\ pc' = "extract"
  /\ next_file' = 1
  /\ UNCHANGED <<inputs, run, error, controls, pending, evidence_files,
                 evidence_texts, findings, matches, result, output,
                 prev_output>>

FileNamed(n) == CHOOSE e \in dir_entries : e.name = n

\* `if text:`
Truthy(opt) == opt # None /\ TextLen(opt[1]) > 0

\* lines 152-155: one iteration of the extraction loop
ExtractStep ==
  /\ pc = "extract"
  /\ next_file <= Len(evidence_files)
  /\ LET ef == evidence_files[next_file]
         text == extract_text_from_file(FileNamed(ef.name))
     IN evidence_texts' =
          (IF Truthy(text)
             THEN Append(evidence_texts, [name |-> ef.name, text |-> text[1]])
             ELSE evidence_texts)
  /\ next_file' = next_file + 1
  /\ UNCHANGED <<inputs, run, pc, error, controls, pending, evidence_files,
                 findings, matches, result, output, prev_output>>

ExtractDone ==
  /\ pc = "extract"
  /\ next_file > Len(evidence_files)
  /\ pc' = "match"
  /\ UNCHANGED <<inputs, run, error, controls, pending, evidence_files,
                 next_file, evidence_texts, findings, matches, result, output,
                 prev_output>>

\* findings.append(finding)
AppendFindingInFront(fs, f) == <<f>> \o fs

AppendFinding(fs, f) == Append(fs, f)

\* lines 161-163: one iteration of the loop over controls
MatchStep ==
  /\ pc = "match"
  /\ Len(findings) < Len(controls)
  /\ LET control == controls[Len(findings) + 1]
     IN /\ findings' = AppendFinding(findings,
                          match_evidence_to_control(control, evidence_texts))
        /\ matches' = Append(matches, MatchCounts(control, evidence_texts))
  /\ UNCHANGED <<inputs, run, pc, error, controls, pending, evidence_files,
                 next_file, evidence_texts, result, output, prev_output>>

MatchDone ==
  /\ pc = "match"
  /\ Len(findings) >= Len(controls)
  /\ pc' = "build"
  /\ UNCHANGED <<inputs, run, error, controls, pending, evidence_files,
                 next_file, evidence_texts, findings, matches, result, output,
                 prev_output>>

\* sum(1 for f in findings if f["preliminary_status"] == status)
CountStatus(fs, status) ==
  Cardinality({i \in 1..Len(fs) : fs[i].preliminary_status = status})

\* framework["framework"]["id"] raises KeyError without the identity object
IdentityAlwaysPresent(doc) == TRUE

HasIdentity(doc) == doc.has_framework

\* lines 166-190: the summary counts and the result
BuildResult ==
  /\ pc = "build"
  /\ IF ~HasIdentity(framework_doc)
       THEN /\ Abort("KeyError")
            /\ UNCHANGED result
       ELSE /\ result' =
                 << [evidence_files |-> evidence_files,
                     preliminary_summary |->
                       [total_controls |-> Len(controls),
                        potential_compliant |->
                          CountStatus(findings, "potential_compliant"),
                        potential_partial |->
                          CountStatus(findings, "potential_partial"),
                        potential_gap |->
                          CountStatus(findings, "potential_gap")],
                     findings |-> findings] >>
            /\ pc' = "write"
            /\ UNCHANGED error
  /\ UNCHANGED <<inputs, run, controls, pending, evidence_files, next_file,
                 evidence_texts, findings, matches, output, prev_output>>

\* lines 192-193
WriteOutput ==
  /\ pc = "write"
  /\ output' = result
  /\ pc' = "done"
  /\ UNCHANGED <<inputs, run, error, controls, pending, evidence_files,
                 next_file, evidence_texts, findings, matches, result,
                 prev_output>>

\* the pipeline is run again on the same framework and evidence directory
Rerun ==
  /\ pc = "done"
  /\ run = 1
  /\ run' = 2
  /\ prev_output' = << [findings |-> output[1].findings,
                        preliminary_summary |-> output[1].preliminary_summary] >>
  /\ pc' = "load_framework"
  /\ controls' = <<>>
  /\ pending' = {}
  /\ evidence_files' = <<>>
  /\ next_file' = 1
  /\ evidence_texts' = <<>>
  /\ findings' = <<>>
  /\ matches' = <<>>
  /\ result' = <<>>
  /\ UNCHANGED <<inputs, error, output>>

Next ==
  \/ LoadFramework
  \/ LoadEvidenceMissingDir
  \/ CatalogEntry
  \/ CatalogDone
  \/ ExtractStep
  \/ ExtractDone
  \/ MatchStep
  \/ MatchDone
  \/ BuildResult
  \/ WriteOutput
  \/ Rerun

Spec == Init /\ [][Next]_vars

\* ---------------------------------------------------------------- claims
Names(seq) == {seq[i].name : i \in 1..Len(seq)}

Range(seq) == {seq[i] : i \in 1..Len(seq)}

\* the run is past the extraction loop
Extracted == pc \in {"match", "build", "write", "done"} \/ error = "KeyError"

\* C1: every Finding's preliminary_status is decided by the number of
\* matched files alone: none gives potential_gap, exactly one gives
\* potential_partial, two or more give potential_compliant, and no other
\* status is produced.
C1_StatusByMatchedCount ==
  \A i \in 1..Len(findings) :
    LET n == Len(findings[i].evidence_found)
        st == findings[i].preliminary_status
    IN /\ st \in {"potential_gap", "potential_partial", "potential_compliant"}
       /\ (n = 0 => st = "potential_gap")
       /\ (n = 1 => st = "potential_partial")
       /\ (n >= 2 => st = "potential_compliant")

C1_Witness ==
  \E i, j \in 1..Len(findings) :
    /\ Len(findings[i].evidence_found) = 1
    /\ Len(findings[j].evidence_found) >= 2

\* C2: a file with an ExtractedText entry is in a Finding's evidence_found
\* exactly when more than 2 of the control's keyword tokens (the
\* lower-cased, whitespace-split words of its common_evidence labels) occur
\* as substrings of the lower-cased text.
C2_MatchedIffMoreThanTwoHits ==
  \A i \in 1..Len(findings) :
    LET tokens == ExtendAll(findings[i].common_evidence_types)
        hits(text) == Cardinality({p \in 1..Len(tokens) :
                                    TextContains(tokens[p], LowerText(text))})
    IN /\ Range(findings[i].evidence_found) \subseteq Names(evidence_texts)
       /\ \A k \in 1..Len(evidence_texts) :
            (evidence_texts[k].name \in Range(findings[i].evidence_found))
              <=> (hits(evidence_texts[k].text) > 2)

\* one file matched on exactly 3 hits, another not matched on exactly 2
C2_Witness ==
  \E i \in 1..Len(findings) : \E k, m \in 1..Len(evidence_texts) :
    /\ matches[i][k] = 3
    /\ evidence_texts[k].name \in Range(findings[i].evidence_found)
    /\ matches[i][m] = 2
    /\ evidence_texts[m].name \notin Range(findings[i].evidence_found)

C4_FindingsFollowControlOrder ==
  pc = "done"
    => /\ Len(findings) = Len(framework_doc.controls)
       /\ \A i \in 1..Len(findings) :
            findings[i].control_id = framework_doc.controls[i].id
       /\ output # <<>>
       /\ output[1].findings = findings

\* a second run whose enumeration order differed from the first run's in
\* a way that shows in evidence_found
C4_Witness ==
  /\ pc = "done"
  /\ run = 2
  /\ Len(findings) >= 2
  /\ Len(evidence_files) >= 2
  /\ prev_output[1].findings # findings

\* C5: a malformed framework document, or one without the framework
\* identity object or without the controls list, aborts the run before any
\* evidence file is enumerated or has its text extracted.
C5_BadFrameworkAbortsBeforeEvidence ==
  (~framework_doc.well_formed \/ ~framework_doc.has_framework
     \/ ~framework_doc.has_controls)
    => /\ pc # "done"
       /\ evidence_files = <<>>
       /\ evidence_texts = <<>>

\* C6: a run that ends in a fatal error never writes the output file; the
\* output exists only after loading, enumeration, extraction, matching and
\* result construction all completed.
C6_OutputOnlyAfterCompleteRun ==
  /\ pc = "aborted" => output = <<>>
  /\ output # <<>>
       => /\ framework_doc.well_formed
          /\ framework_doc.has_framework
          /\ dir_exists
          /\ Len(output[1].findings) = Len(framework_doc.controls)
          /\ Names(output[1].evidence_files)
               = {e.name : e \in {d \in dir_entries : d.is_file}}
          /\ output[1].preliminary_summary.total_controls
               = Len(output[1].findings)

\* the latest fatal error: the KeyError raised while the result is built,
\* after every control was matched
C6_Witness ==
  /\ pc = "aborted"
  /\ error = "KeyError"
  /\ findings # <<>>
  /\ evidence_texts # <<>>
  /\ output = <<>>

\* C7: no entry of ExtractedText is longer than 5000 characters, on any
\* extraction path, placeholders included.
C7_TextsAtMostMaxChars ==
  \A k \in 1..Len(evidence_texts) : TextLen(evidence_texts[k].text) <= 5000

\* a document cut to 5000 characters next to a placeholder
C7_Witness ==
  \E k, m \in 1..Len(evidence_texts) :
    /\ TextLen(evidence_texts[k].text) = 5000
    /\ TextLen(FileNamed(evidence_texts[k].name).content) > 5000
    /\ FileNamed(evidence_texts[m].name).raises

Recognized(e) ==
  LowerSeq(Suffix(e.name)) \in
    PlainSuffixes \cup {PdfSuffix, DocxSuffix} \cup SheetSuffixes

PlainType(e) == LowerSeq(Suffix(e.name)) \in PlainSuffixes

InSomeFinding(n) ==
  \E i \in 1..Len(findings) : n \in Range(findings[i].evidence_found)

\* C8 as stated: a file whose extraction fails, or whose type is not
\* recognized, stays in evidence_files, has no ExtractedText entry and is in
\* no Finding's evidence_found.
C8_FailedFileHasNoText ==
  Extracted =>
    \A e \in dir_entries :
      (e.is_file /\ (e.raises \/ ~Recognized(e)))
        => /\ e.name \in Names(evidence_files)
           /\ e.name \notin Names(evidence_texts)
           /\ ~InSomeFinding(e.name)

\* C8 amended: a file of an unrecognized type, and a plain-text file whose
\* read raises, stay in evidence_files, have no ExtractedText entry and are
\* in no evidence_found; a PDF, DOCX or spreadsheet file whose extraction
\* raises stays in evidence_files and has its placeholder as ExtractedText
\* entry.  No run is aborted inside the extraction loop, and matching gives
\* every control a Finding.
C8_FailedFileExcludedOrPlaceholder ==
  /\ Extracted =>
       \A e \in dir_entries :
         (e.is_file /\ (e.raises \/ ~Recognized(e)))
           => /\ e.name \in Names(evidence_files)
              /\ IF ~Recognized(e) \/ PlainType(e)
                   THEN /\ e.name \notin Names(evidence_texts)
                        /\ ~InSomeFinding(e.name)
                   ELSE \E k \in 1..Len(evidence_texts) :
                          /\ evidence_texts[k].name = e.name
                          /\ Len(evidence_texts[k].text.body) > Len(e.name)
                          /\ Contains(e.name, evidence_texts[k].text.body)
  /\ pc = "aborted" =>
       \/ error \in {"JSONDecodeError", "FileNotFoundError"} /\ evidence_files = <<>>
       \/ error = "KeyError" /\ next_file = Len(evidence_files) + 1
  /\ (pc \in {"build", "write", "done"} \/ error = "KeyError")
       => Len(findings) = Len(controls)

\* a completed run over a text file whose read raised and a PDF whose
\* placeholder was matched
C8_Witness ==
  /\ pc = "done"
  /\ \E e \in dir_entries :
       e.is_file /\ e.raises /\ PlainType(e) /\ e.name \notin Names(evidence_texts)
  /\ \E e \in dir_entries :
       e.is_file /\ e.raises /\ ~PlainType(e) /\ InSomeFinding(e.name)

\* C9: a second run on the same framework and evidence directory gives the
\* same findings, evidence_found included, and the same summary counts as
\* the first, whatever order each run enumerates the directory in.
C9_RerunGivesIdenticalFindings ==
  (run = 2 /\ pc = "done")
    => /\ output[1].findings = prev_output[1].findings
       /\ output[1].preliminary_summary = prev_output[1].preliminary_summary

\* the distinct keyword tokens of a label list that occur in a text, and
\* the number of times a token occurs across the labels
RECURSIVE SumOver(_, _, _)
SumOver(S, f(_), acc) ==
  IF S = {} THEN acc
  ELSE LET x == CHOOSE y \in S : TRUE
       IN SumOver(S \ {x}, f, acc + f(x))

FoundTokens(ce, text) ==
  {t \in Range(ExtendAll(ce)) : TextContains(t, LowerText(text))}

Multiplicity(ce, t) ==
  LET tokens == ExtendAll(ce)
  IN Cardinality({p \in 1..Len(tokens) : tokens[p] = t})

\* C10 as stated: a token that occurs several times across the labels
\* gives at most one hit, so a file's count never exceeds the number of
\* distinct keyword tokens found in its text.
C10_KeywordsBehaveAsSet ==
  \A i \in 1..Len(findings) : \A k \in 1..Len(matches[i]) :
    matches[i][k] <=
      Cardinality(FoundTokens(findings[i].common_evidence_types,
                              evidence_texts[k].text))

\* C10 amended: the keywords behave as a list; a token that occurs n times
\* across the labels gives n hits to a file whose text contains it, so a
\* file's count is the sum, over the distinct tokens found in its text, of
\* the number of times each occurs across the labels.
C10_KeywordsCountWithMultiplicity ==
  \A i \in 1..Len(findings) : \A k \in 1..Len(matches[i]) :
    LET ce == findings[i].common_evidence_types
        mult(t) == Multiplicity(ce, t)
    IN matches[i][k] = SumOver(FoundTokens(ce, evidence_texts[k].text), mult, 0)

\* a file matched on 3 hits that all come from one repeated token
C10_Witness ==
  \E i \in 1..Len(findings) : \E k \in 1..Len(matches[i]) :
    /\ matches[i][k] = 3
    /\ Cardinality(FoundTokens(findings[i].common_evidence_types,
                               evidence_texts[k].text)) = 1
    /\ evidence_texts[k].name \in Range(findings[i].evidence_found)

====
